---- MODULE Spec2Model ----
(***************************************************************************)
(* Model of data.py: the flight-record ETL.  A string is a sequence of     *)
(* one-character strings; Python's None is the empty tuple None and a      *)
(* non-None value v is the one-element tuple Val(v), so that None never    *)
(* coincides with the empty string or with 0.                              *)
(***************************************************************************)
EXTENDS Integers, Sequences, FiniteSets, TLC

VARIABLES
    flight,       \* clean_flight_data: the raw record under normalization
    cleaned,      \* clean_flight_data: its result, None before the call
    pc,           \* position in process_flight_folders
    conn,         \* the connection: "none", "open" or "closed"
    closes,       \* conn.close() calls so far
    inited,       \* create_test_table_if_not_exists has returned
    tableExists,  \* ticket_info exists in the database
    dropped,      \* rows DROP TABLE removed
    table,        \* committed rows of ticket_info, in insertion order
    pending,      \* rows of the connection's open transaction
    fs,           \* the directory tree under the root folder
    todo,         \* files os.walk has still to yield, in its order
    processed,    \* paths process_single_file was called on, in order
    last          \* what the latest process_single_file call did

vars == <<flight, cleaned, pc, conn, closes, inited, tableExists,
          dropped, table, pending, fs, todo, processed, last>>

dbVars == <<conn, closes, inited, tableExists, dropped, table, pending>>


\* ------------------------------------------------------------------ bounds

\* Longest raw text / price string that is enumerated.
MaxLen == 3

\* Most records in one JSON file.
MaxRecs == 2

\* ------------------------------------------------------------- Python values

None == << >>

Val(v) == <<v>>

\* The characters str.strip() removes among those the model draws.
Whitespace == {" ", "\t", "\n"}

Digits == {"0", "1", "2", "3", "4", "5", "6", "7", "8", "9"}

DigitValue(c) ==
    CASE c = "0" -> 0 [] c = "1" -> 1 [] c = "2" -> 2 [] c = "3" -> 3
      [] c = "4" -> 4 [] c = "5" -> 5 [] c = "6" -> 6 [] c = "7" -> 7
      [] c = "8" -> 8 [] c = "9" -> 9

\* The yen sign U+00A5 of line 39.
Yen == "Y"

\* dict.get(key, default)
Get(d, key, default) == IF key \in DOMAIN d THEN d[key] ELSE default

RECURSIVE LStrip(_)
LStrip(s) ==
    IF s # << >> /\ Head(s) \in Whitespace THEN LStrip(Tail(s)) ELSE s

RECURSIVE RStrip(_)
RStrip(s) ==
    IF s # << >> /\ s[Len(s)] \in Whitespace
    THEN RStrip(SubSeq(s, 1, Len(s) - 1))
    ELSE s

\* Mutant of Strip: only leading whitespace is removed (lstrip).
Strip_LeftOnly(s) == LStrip(s)

\* str.strip()
Strip(s) == RStrip(LStrip(s))

\* str.replace(c, '') for a one-character c
RECURSIVE Replace(_, _)
Replace(s, c) ==
    IF s = << >> THEN << >>
    ELSE IF Head(s) = c THEN Replace(Tail(s), c)
    ELSE <<Head(s)>> \o Replace(Tail(s), c)

\* x or None, for a string x
OrNone(s) == IF s = << >> THEN None ELSE Val(s)

\* ------------------------------------------------------------------- int()

RECURSIVE DigitsValue(_, _)
DigitsValue(s, acc) ==
    IF s = << >> THEN acc
    ELSE IF Head(s) = "_" THEN DigitsValue(Tail(s), acc)
    ELSE DigitsValue(Tail(s), 10 * acc + DigitValue(Head(s)))

\* Decimal digits, single underscores allowed between digits.
IsDigitRun(s) ==
    /\ s # << >>
    /\ \A i \in 1..Len(s) : s[i] \in Digits \cup {"_"}
    /\ s[1] \in Digits
    /\ s[Len(s)] \in Digits
    /\ \A i \in 1..(Len(s) - 1) : ~(s[i] = "_" /\ s[i + 1] = "_")

\* int(s) for a str s: None stands for ValueError.
PyInt(s) ==
    LET t == Strip(s)
        signed == t # << >> /\ Head(t) \in {"+", "-"}
        body == IF signed THEN Tail(t) ELSE t
    IN  IF ~IsDigitRun(body) THEN None
        ELSE IF signed /\ Head(t) = "-" THEN Val(0 - DigitsValue(body, 0))
        ELSE Val(DigitsValue(body, 0))

\* ------------------------------------------------- strptime(s, '%Y-%m-%d')

RECURSIVE SplitOn(_, _)
SplitOn(s, c) ==
    IF \A i \in 1..Len(s) : s[i] # c THEN <<s>>
    ELSE LET k == CHOOSE i \in 1..Len(s) :
                      s[i] = c /\ \A j \in 1..(i - 1) : s[j] # c
         IN  <<SubSeq(s, 1, k - 1)>> \o SplitOn(SubSeq(s, k + 1, Len(s)), c)

\* %Y: \d\d\d\d
DirectiveY(s) ==
    IF Len(s) = 4 /\ \A i \in 1..4 : s[i] \in Digits
    THEN Val(DigitsValue(s, 0)) ELSE None

\* %m: 1[0-2]|0[1-9]|[1-9]
DirectiveM(s) ==
    IF Len(s) = 2 /\ s[1] = "1" /\ s[2] \in {"0", "1", "2"}
        THEN Val(DigitsValue(s, 0))
    ELSE IF Len(s) = 2 /\ s[1] = "0" /\ s[2] \in Digits \ {"0"}
        THEN Val(DigitsValue(s, 0))
    ELSE IF Len(s) = 1 /\ s[1] \in Digits \ {"0"}
        THEN Val(DigitsValue(s, 0))
    ELSE None

\* %d: 3[0-1]|[1-2]\d|0[1-9]|[1-9]| [1-9]
DirectiveD(s) ==
    IF Len(s) = 2 /\ s[1] = "3" /\ s[2] \in {"0", "1"}
        THEN Val(DigitsValue(s, 0))
    ELSE IF Len(s) = 2 /\ s[1] \in {"1", "2"} /\ s[2] \in Digits
        THEN Val(DigitsValue(s, 0))
    ELSE IF Len(s) = 2 /\ s[1] = "0" /\ s[2] \in Digits \ {"0"}
        THEN Val(DigitsValue(s, 0))
    ELSE IF Len(s) = 1 /\ s[1] \in Digits \ {"0"}
        THEN Val(DigitsValue(s, 0))
    ELSE IF Len(s) = 2 /\ s[1] = " " /\ s[2] \in Digits \ {"0"}
        THEN Val(DigitsValue(Tail(s), 0))
    ELSE None

IsLeap(y) == (y % 4 = 0 /\ y % 100 # 0) \/ y % 400 = 0

DaysInMonth(y, m) ==
    IF m = 2 THEN (IF IsLeap(y) THEN 29 ELSE 28)
    ELSE IF m \in {4, 6, 9, 11} THEN 30
    ELSE 31

\* Mutant of Strptime: the day is not checked against the month's length.
Strptime_NoCalendar(s) ==
    LET parts == SplitOn(s, "-")
    IN  /\ Len(parts) = 3
        /\ DirectiveY(parts[1]) # None
        /\ DirectiveM(parts[2]) # None
        /\ DirectiveD(parts[3]) # None

\* TRUE iff datetime.strptime(s, '%Y-%m-%d') returns; FALSE is ValueError.
Strptime(s) ==
    LET parts == SplitOn(s, "-")
    IN  /\ Len(parts) = 3
        /\ DirectiveY(parts[1]) # None
        /\ DirectiveM(parts[2]) # None
        /\ DirectiveD(parts[3]) # None
        /\ DirectiveY(parts[1])[1] >= 1
        /\ DirectiveD(parts[3])[1]
              <= DaysInMonth(DirectiveY(parts[1])[1], DirectiveM(parts[2])[1])

\* -------------------------------------------------------- clean_flight_data

\* The JSON keys of a flight object, in the order of the cleaned columns.
KeyDeparture == "chufadi"

KeyDestination == "mudidi"

KeyDate == "hangbanriqi"

KeyCode == "hangbandaima"

KeyPrice == "jiage"

FlightTypeDomestic == "guoneihangban"

\* line 35: ['无价格', '暂无', 'NA', 'N/A']
PriceSentinels ==
    { <<"wu", "jia", "ge">>, <<"zan", "wu">>, <<"N", "A">>, <<"N", "/", "A">> }

\* JSON values as json.load returns them, tagged with their Python type;
\* each type keeps its value under a field of its own.
JStr(s) == [t |-> "str", s |-> s]

JNum(n) == [t |-> "num", n |-> n]

JNull == [t |-> "null"]

JList(l) == [t |-> "list", l |-> l]

JObj(f) == [t |-> "obj", o |-> f]

CleanKeys == {KeyDeparture, KeyDestination, KeyDate, KeyCode, KeyPrice}

\* flight.get(key, '').strip() raises AttributeError when flight is no dict
\* (lines 12-34: only a dict has .get) or the value under key is no str.
CleanRaises(flight_) ==
    \/ flight_.t # "obj"
    \/ \E k \in CleanKeys : k \in DOMAIN flight_.o /\ flight_.o[k].t # "str"

\* flight.get(key, '').strip()
GetStripped(flight_, key) == Strip(Get(flight_.o, key, JStr(<< >>)).s)

CleanText(flight_, key) == OrNone(GetStripped(flight_, key))

CleanDate(flight_) ==
    LET date_str == GetStripped(flight_, KeyDate)
    IN  IF date_str # << >>
        THEN (IF Strptime(date_str) THEN Val(date_str) ELSE None)
        ELSE None

\* Mutant of StripPrice: the thousands separators are left in.
StripPrice_KeepsCommas(price_str) == Replace(Replace(price_str, Yen), " ")

StripPrice(price_str) == Replace(Replace(Replace(price_str, Yen), ","), " ")

CleanPrice(flight_) ==
    LET price_str == GetStripped(flight_, KeyPrice)
    IN  IF price_str = << >> \/ price_str \in PriceSentinels
        THEN None
        ELSE PyInt(StripPrice(price_str))

\* Defined where ~CleanRaises(flight_).
clean_flight_data(flight_) ==
    [ departure   |-> CleanText(flight_, KeyDeparture),
      destination |-> CleanText(flight_, KeyDestination),
      flight_type |-> FlightTypeDomestic,
      flight_date |-> CleanDate(flight_),
      flight_code |-> CleanText(flight_, KeyCode),
      price       |-> CleanPrice(flight_) ]

\* ------------------------------------------------------------------ inputs

\* All strings over chars of length at most n.
StringsOver(chars, n) == UNION { [1..k -> chars] : k \in 0..n }

TextChars == {" ", "\t", "\n", "a", "b"}

PriceChars == {"1", "0", Yen, ",", " ", "\t", ".", "-", "_", "N", "A", "/"}

DateYears ==
    { <<"2", "0", "2", "4">>,
      <<"2", "0", "2", "3">>,
      <<"1", "9", "0", "0">>,
      <<"2", "0", "0", "0">>,
      <<"0", "0", "0", "0">>,
      <<"2", "0", "2">>,
      <<"2", "0", "2", "4", "5">> }

DateMonths ==
    { <<"0", "2">>,
      <<"2">>,
      <<"1", "2">>,
      <<"1", "3">>,
      <<"0", "0">>,
      <<"4">>,
      <<"0", "4">> }

DateDays ==
    { <<"2", "9">>,
      <<"3", "0">>,
      <<"3", "1">>,
      <<"5">>,
      <<"0", "5">>,
      <<" ", "5">>,
      <<"0", "0">>,
      <<"3", "2">>,
      <<"2", "8">> }

DateSeparators == {"-", "/"}

DateLeads == { << >>, <<" ">> }

DateTrails == { << >>, <<"\t">>, <<"x">> }

DateStrings ==
    { l \o y \o <<sep>> \o m \o <<sep>> \o d \o t :
        l \in DateLeads, y \in DateYears, sep \in DateSeparators,
        m \in DateMonths, d \in DateDays, t \in DateTrails }
    \cup { << >>, <<" ">> }

\* A record every field of which survives normalization.
FlightA ==
    ( KeyDeparture   :> JStr(<<" ", "P", " ">>) @@
      KeyDestination :> JStr(<<"S">>) @@
      KeyDate        :> JStr(<<"2", "0", "2", "4", "-", "0", "2", "-", "2", "9">>) @@
      KeyCode        :> JStr(<<"C", "1">>) @@
      KeyPrice       :> JStr(<<"Y", "1", ",", "2", "0", "0">>) )

\* FlightA with key removed
Without(f, key) == [k \in DOMAIN f \ {key} |-> f[k]]

\* FlightA with the value of key replaced
With(f, key, value) == [f EXCEPT ![key] = value]

TextKeys == {KeyDeparture, KeyDestination, KeyCode}

\* The raw records clean_flight_data is applied to: FlightA with one key
\* missing, or with one value drawn from the strings above.
CleanInputs ==
    { JObj(Without(FlightA, k)) : k \in CleanKeys }
    \cup { JObj(With(FlightA, k, JStr(s))) :
             k \in TextKeys, s \in StringsOver(TextChars, MaxLen) }
    \cup { JObj(With(FlightA, KeyDate, JStr(s))) : s \in DateStrings }
    \cup { JObj(With(FlightA, KeyPrice, JStr(s))) :
             s \in StringsOver(PriceChars, MaxLen) }

FlightB ==
    With(With(FlightA, KeyDate, JStr(<<"2", "0", "2", "4", "-", "1", "-", "5">>)), KeyPrice, JStr(<<"9", "8">>))

\* The records a file may hold: two that pass the filter, one rejected for
\* each required field, and two on which clean_flight_data raises.
RecordPool ==
    { JObj(FlightA),
      JObj(FlightB),
      JObj(Without(FlightA, KeyDeparture)),
      JObj(With(FlightA, KeyDestination, JStr(<<" ", " ">>))),
      JObj(With(FlightA, KeyDate, JStr(<<"2", "0", "2", "3", "-", "0", "2", "-", "2", "9">>))),
      JObj(With(FlightA, KeyCode, JStr(<< >>))),
      JObj(With(FlightA, KeyPrice, JStr(<<"N", "/", "A">>))),
      JStr(<<"x">>),
      JObj(With(FlightA, KeyPrice, JNum(1200))) }

RecordLists == UNION { [1..k -> RecordPool] : k \in 0..MaxRecs }

\* ------------------------------------------- insert_flights_to_test_table

\* Mutant of IsComplete: the price is not tested.
IsComplete_IgnoresPrice(f) ==
    /\ f.flight_code # None
    /\ f.departure # None
    /\ f.destination # None
    /\ f.flight_date # None

\* lines 90-94: the record filter
IsComplete(f) ==
    /\ f.flight_code # None
    /\ f.price # None
    /\ f.departure # None
    /\ f.destination # None
    /\ f.flight_date # None

\* lines 81-89: the tuple bound to the INSERT's seven placeholders
InsertTuple(f, source_file) ==
    [ departure   |-> f.departure,
      destination |-> f.destination,
      flight_type |-> f.flight_type,
      flight_date |-> f.flight_date,
      flight_code |-> f.flight_code,
      price       |-> f.price,
      source_file |-> source_file ]

DataToInsert(flights, source_file) ==
    LET kept == SelectSeq(flights, IsComplete)
    IN  [i \in 1..Len(kept) |-> InsertTuple(kept[i], source_file)]

\* The row the table stores for a tuple: created_at defaults to the time of
\* the insert, which is either Earlier (before the program started) or
\* ThisRun.
Earlier == "earlier"

ThisRun == "this run"

StoredRow(tuple, now) == tuple @@ [created_at |-> now]

\* What the database can do to the batch: nothing, fail the executemany
\* (the rows before the failing one stay in the transaction), or fail the
\* commit.
Faults == {"none", "executemany", "commit"}

\* Mutant of insert_flights_to_test_table: every row is committed as it is
\* inserted (autocommit), so a failing batch leaves its first rows behind.
insert_flights_autocommit(tbl, pend, flights, source_file, fault, now) ==
    LET kept == SelectSeq(flights, IsComplete)
        rows == [i \in 1..Len(kept) |->
                    StoredRow(InsertTuple(kept[i], source_file), now)]
    IN  IF rows = << >>
        THEN [table |-> tbl, pending |-> pend, raised |-> FALSE,
              execs |-> 0, commits |-> 0]
        ELSE IF fault = "executemany"
        THEN [table |-> tbl \o SubSeq(rows, 1, Len(rows) - 1),
              pending |-> pend, raised |-> TRUE, execs |-> 1, commits |-> 0]
        ELSE IF fault = "commit"
        THEN [table |-> tbl \o rows, pending |-> pend, raised |-> TRUE,
              execs |-> 1, commits |-> 0]
        ELSE [table |-> tbl \o pend \o rows, pending |-> << >>,
              raised |-> FALSE, execs |-> 1, commits |-> 1]

\* Mutant of insert_flights_to_test_table: the commit is issued whether or
\* not there is anything to insert.
insert_flights_always_commits(tbl, pend, flights, source_file, fault, now) ==
    LET kept == SelectSeq(flights, IsComplete)
        rows == [i \in 1..Len(kept) |->
                    StoredRow(InsertTuple(kept[i], source_file), now)]
    IN  IF fault = "executemany" /\ rows # << >>
        THEN [table |-> tbl,
              pending |-> pend \o SubSeq(rows, 1, Len(rows) - 1),
              raised |-> TRUE, execs |-> 1, commits |-> 0]
        ELSE IF fault = "commit" /\ rows # << >>
        THEN [table |-> tbl, pending |-> pend \o rows, raised |-> TRUE,
              execs |-> 1, commits |-> 0]
        ELSE [table |-> tbl \o pend \o rows, pending |-> << >>,
              raised |-> FALSE,
              execs |-> IF rows = << >> THEN 0 ELSE 1, commits |-> 1]

\* The effect on (table, pending) of lines 69-102.
insert_flights_to_test_table(tbl, pend, flights, source_file, fault, now) ==
    LET data_to_insert == DataToInsert(flights, source_file)
        rows == [i \in 1..Len(data_to_insert) |->
                    StoredRow(data_to_insert[i], now)]
    IN  IF data_to_insert = << >>
        THEN [table |-> tbl, pending |-> pend, raised |-> FALSE,
              execs |-> 0, commits |-> 0]
        ELSE IF fault = "executemany"
        THEN [table |-> tbl,
              pending |-> pend \o SubSeq(rows, 1, Len(rows) - 1),
              raised |-> TRUE, execs |-> 1, commits |-> 0]
        ELSE IF fault = "commit"
        THEN [table |-> tbl, pending |-> pend \o rows, raised |-> TRUE,
              execs |-> 1, commits |-> 0]
        ELSE [table |-> tbl \o pend \o rows, pending |-> << >>,
              raised |-> FALSE, execs |-> 1, commits |-> 1]

\* ------------------------------------------------------ process_single_file

FlightListKey == "hangbanliebiao"

\* What open() and json.load make of a file that is no JSON document.
Unreadable == [t |-> "unreadable"]

NotJson == [t |-> "notjson"]

\* not x, for a JSON value x
Falsy(x) ==
    CASE x.t = "null" -> TRUE
      [] x.t = "num"  -> x.n = 0
      [] x.t = "str"  -> x.s = << >>
      [] x.t = "list" -> x.l = << >>
      [] x.t = "obj"  -> DOMAIN x.o = {}

\* os.path.join(root, filename)
Join(root, filename) == Append(root, filename)

\* The working directory the program is started in.
Cwd == << <<"w">> >>

\* Mutant of os_path_abspath: the base name only, as the comment of line
\* 127 considers.
os_path_basename(path) == <<path[Len(path)]>>

\* os.path.abspath of a relative path
os_path_abspath(path) == Cwd \o path

\* line 126 on the records of RecordPool that clean_flight_data accepts:
\* the cleaned record of each, computed once.
cleaned_flight ==
    [r \in {x \in RecordPool : ~CleanRaises(x)} |-> clean_flight_data(r)]

\* The part of lines 107-128 inside the try: "raised" is an exception that
\* reaches line 130.
TryBody(tbl, pend, file_path, content, fault, now) ==
    LET unchanged(r) == [table |-> tbl, pending |-> pend, raised |-> r,
                         execs |-> 0, commits |-> 0]
    IN  IF content = Unreadable THEN unchanged(TRUE)
        ELSE IF content = NotJson THEN unchanged(FALSE)
        ELSE IF content.t \notin {"list", "obj"} THEN unchanged(TRUE)
        ELSE LET flight_list ==
                     IF content.t = "list" THEN content
                     ELSE Get(content.o, FlightListKey, JList(<< >>))
             IN  IF Falsy(flight_list) THEN unchanged(FALSE)
                 ELSE IF flight_list.t # "list" THEN unchanged(TRUE)
                 ELSE IF \E i \in 1..Len(flight_list.l) :
                              CleanRaises(flight_list.l[i])
                 THEN unchanged(TRUE)
                 ELSE insert_flights_to_test_table(
                          tbl, pend,
                          [i \in 1..Len(flight_list.l) |->
                              cleaned_flight[flight_list.l[i]]],
                          os_path_abspath(file_path), fault, now)

\* lines 105-132.  outcome: "returned", "handled" (an exception caught and
\* rolled back) or "escaped" (conn.rollback() itself raised).
process_single_file(tbl, pend, file_path, content, fault, rollbackOk, now) ==
    LET body == TryBody(tbl, pend, file_path, content, fault, now)
    IN  IF ~body.raised
        THEN [table |-> body.table, pending |-> body.pending,
              outcome |-> "returned", execs |-> body.execs,
              commits |-> body.commits]
        ELSE IF rollbackOk
        THEN [table |-> body.table, pending |-> << >>,
              outcome |-> "handled", execs |-> body.execs,
              commits |-> body.commits]
        ELSE [table |-> body.table, pending |-> body.pending,
              outcome |-> "escaped", execs |-> body.execs,
              commits |-> body.commits]

\* --------------------------------------------------- process_all_json_files

\* str.lower() on the letters the model draws
LowerChar(c) ==
    CASE c = "J" -> "j" [] c = "S" -> "s" [] c = "O" -> "o" [] c = "N" -> "n"
      [] c = "X" -> "x" [] OTHER -> c

Lower(s) == [i \in 1..Len(s) |-> LowerChar(s[i])]

EndsWith(s, suffix) ==
    /\ Len(s) >= Len(suffix)
    /\ SubSeq(s, Len(s) - Len(suffix) + 1, Len(s)) = suffix

DotJson == <<".", "j", "s", "o", "n">>

\* Mutant of IsJsonName: the name is compared without lower().
IsJsonName_CaseSensitive(filename) == EndsWith(filename, DotJson)

\* line 160
IsJsonName(filename) == EndsWith(Lower(filename), DotJson)

\* os.walk(root_folder): top-down, each directory's files before its
\* subdirectories; one entry per file.
RECURSIVE Walk(_, _)
RECURSIVE WalkDirs(_, _, _)
Walk(tree, dir) ==
    [i \in 1..Len(tree[dir].files) |->
        [root |-> dir, filename |-> tree[dir].files[i]]]
    \o WalkDirs(tree, dir, tree[dir].dirs)

WalkDirs(tree, dir, ds) ==
    IF ds = << >> THEN << >>
    ELSE Walk(tree, Append(dir, Head(ds))) \o WalkDirs(tree, dir, Tail(ds))

\* ------------------------------------------------------------ file system

\* What a file under the root folder may contain.
Contents ==
    { Unreadable, NotJson, JNum(5), JNull,
      JObj("other" :> JNum(1)),
      JObj(FlightListKey :> JNull),
      JObj(FlightListKey :> JNum(7)),
      JObj(FlightListKey :> JStr(<<"a", "b">>)) }
    \cup { JList(l) : l \in RecordLists }
    \cup { JObj(FlightListKey :> JList(l)) :
             l \in { x \in RecordLists : Len(x) <= 1 } }

\* "json", the root folder of line 193
RootFolder == << <<"j">> >>

DirA == <<"a">>

DirB == <<"b">>

DirDotJson == <<"d", ".", "j", "s", "o", "n">>

\* The directory trees the walk is run on: each maps a directory to its
\* subdirectories and files, as os.scandir lists them.
Tree1 ==
    ( RootFolder :> [dirs |-> <<DirA>>,
                     files |-> << <<"x", ".", "t", "x", "t">>, <<"x", ".", "j", "s", "o", "n">> >>] @@
      <<RootFolder[1], DirA>> :> [dirs |-> <<DirB>>, files |-> << >>] @@
      <<RootFolder[1], DirA, DirB>> :>
          [dirs |-> << >>, files |-> << <<"X", ".", "J", "S", "O", "N">>, <<"x", "j", "s", "o", "n">> >>] )

Tree2 ==
    ( RootFolder :> [dirs |-> <<DirDotJson, DirA>>, files |-> << >>] @@
      <<RootFolder[1], DirDotJson>> :>
          [dirs |-> << >>, files |-> << <<"x", ".", "j", "s", "o", "n", ".", "b">>, <<"x", ".", "J", "s", "o", "n">> >>] @@
      <<RootFolder[1], DirA>> :> [dirs |-> << >>, files |-> << >>] )

Tree3 ==
    ( RootFolder :> [dirs |-> << >>, files |-> << <<".", "j", "s", "o", "n">>, <<"x", ".", "t", "x", "t">> >>] )

FileSystems == {Tree1, Tree2, Tree3}

\* ------------------------------------------------------------------- state

NoCall == [outcome |-> "none"]

EmptyFlight == JObj(<< >>)

\* A row an earlier run of the program left in ticket_info.
OldRow ==
    StoredRow(InsertTuple(clean_flight_data(JObj(FlightA)),
                          os_path_abspath(Join(RootFolder, <<"o", ".", "j", "s", "o", "n">>))),
              Earlier)

\* The database the program finds: ticket_info absent, empty, or holding
\* rows of an earlier run.
PipeInit ==
    /\ flight = EmptyFlight
    /\ cleaned = None
    /\ pc = "idle"
    /\ conn = "none"
    /\ closes = 0
    /\ inited = FALSE
    /\ \E found \in {<<FALSE, << >> >>, <<TRUE, << >> >>, <<TRUE, <<OldRow>> >>} :
        /\ tableExists = found[1]
        /\ table = found[2]
    /\ dropped = 0
    /\ pending = << >>
    /\ fs \in FileSystems
    /\ todo = << >>
    /\ processed = << >>
    /\ last = NoCall

\* ---------------------------------------------------- connect_to_database

ConnectOk ==
    /\ pc = "idle"
    /\ conn' = "open"
    /\ pc' = "connected"
    /\ UNCHANGED <<flight, cleaned, closes, inited, tableExists, dropped,
                   table, pending, fs, todo, processed, last>>

\* lines 149-151 and 170-171: no connection, the run ends
ConnectFail ==
    /\ pc = "idle"
    /\ pc' = "done"
    /\ UNCHANGED <<flight, cleaned, conn, closes, inited, tableExists,
                   dropped, table, pending, fs, todo, processed, last>>

\* ------------------------------------------ create_test_table_if_not_exists

\* Mutant of CreateTable: CREATE TABLE IF NOT EXISTS alone, no DROP TABLE.
CreateTable_IfNotExists ==
    /\ pc = "connected"
    /\ \E fault \in {"none", "create", "commit"} :
        /\ tableExists' = IF fault = "create" THEN tableExists ELSE TRUE
        /\ inited' = (fault = "none")
        /\ pc' = IF fault = "none" THEN "inited" ELSE "except"
    /\ UNCHANGED <<flight, cleaned, conn, closes, dropped, table, pending, fs,
                   todo, processed, last>>

\* lines 49-65.  fault names the statement that raises, if one does; DROP
\* TABLE and CREATE TABLE take effect as they are executed.
CreateTable ==
    /\ pc = "connected"
    /\ \E fault \in {"none", "drop", "create", "commit"} :
        /\ tableExists' = IF fault = "drop" THEN tableExists
                          ELSE (fault # "create")
        /\ table' = IF fault = "drop" THEN table ELSE << >>
        /\ dropped' = IF fault = "drop" THEN 0 ELSE Len(table)
        /\ inited' = (fault = "none")
        /\ pc' = IF fault = "none" THEN "inited" ELSE "except"
    /\ UNCHANGED <<flight, cleaned, conn, closes, pending, fs, todo,
                   processed, last>>

\* --------------------------------------------------- process_all_json_files

\* line 157: the walk starts
StartWalk ==
    /\ pc = "inited"
    /\ todo' = Walk(fs, RootFolder)
    /\ pc' = "walk"
    /\ UNCHANGED <<flight, cleaned, dbVars, fs, processed, last>>

\* line 160, a name that is no JSON file's: the loop goes on
SkipFile ==
    /\ pc = "walk"
    /\ todo # << >>
    /\ ~IsJsonName(Head(todo).filename)
    /\ todo' = Tail(todo)
    /\ UNCHANGED <<flight, cleaned, pc, dbVars, fs, processed, last>>

\* lines 160-163: the call of process_single_file on the next JSON file.
\* An exception that leaves it leaves the loop too.
CallProcess ==
    /\ pc = "walk"
    /\ todo # << >>
    /\ IsJsonName(Head(todo).filename)
    /\ \E content \in Contents, fault \in Faults, rollbackOk \in BOOLEAN :
        LET file_path == Join(Head(todo).root, Head(todo).filename)
            eff == process_single_file(table, pending, file_path, content,
                                       fault, rollbackOk, ThisRun)
        IN  /\ table' = eff.table
            /\ pending' = eff.pending
            /\ processed' = Append(processed, file_path)
            /\ last' = [outcome |-> eff.outcome, file_path |-> file_path,
                        content |-> content, execs |-> eff.execs,
                        commits |-> eff.commits, before |-> table]
            /\ pc' = IF eff.outcome = "escaped" THEN "except" ELSE "called"
    /\ UNCHANGED <<flight, cleaned, conn, closes, inited, tableExists,
                   dropped, fs, todo>>

\* process_single_file returned: the loop takes the next file
Return ==
    /\ pc = "called"
    /\ todo' = Tail(todo)
    /\ last' = NoCall
    /\ pc' = "walk"
    /\ UNCHANGED <<flight, cleaned, dbVars, fs, processed>>

\* line 180: the walk is over
WalkDone ==
    /\ pc = "walk"
    /\ todo = << >>
    /\ pc' = "walked"
    /\ UNCHANGED <<flight, cleaned, dbVars, fs, todo, processed, last>>

\* --------------------------------------------------- process_flight_folders

\* Mutant of Except: the close sits at the end of the try block instead of
\* in a finally clause, so the handler ends the run with the connection open.
Except_WithoutFinally ==
    /\ pc = "except"
    /\ pc' = "done"
    /\ last' = NoCall
    /\ UNCHANGED <<flight, cleaned, dbVars, fs, todo, processed>>

\* lines 182-183
Except ==
    /\ pc = "except"
    /\ pc' = "excepted"
    /\ last' = NoCall
    /\ UNCHANGED <<flight, cleaned, dbVars, fs, todo, processed>>

\* lines 184-187: the server drops what the connection left uncommitted
Close ==
    /\ pc \in {"walked", "excepted"}
    /\ conn = "open"
    /\ conn' = "closed"
    /\ closes' = closes + 1
    /\ pending' = << >>
    /\ pc' = "done"
    /\ UNCHANGED <<flight, cleaned, inited, tableExists, dropped, table, fs,
                   todo, processed, last>>

Next ==
    \/ ConnectOk
    \/ ConnectFail
    \/ CreateTable
    \/ StartWalk
    \/ SkipFile
    \/ CallProcess
    \/ Return
    \/ WalkDone
    \/ Except
    \/ Close

Spec == PipeInit /\ [][Next]_vars

\* ------------------------------------ clean_flight_data on its own inputs

CleanInit ==
    /\ flight \in CleanInputs
    /\ cleaned = None
    /\ pc = "clean"
    /\ conn = "none"
    /\ closes = 0
    /\ inited = FALSE
    /\ tableExists = FALSE
    /\ dropped = 0
    /\ table = << >>
    /\ pending = << >>
    /\ fs = Tree3
    /\ todo = << >>
    /\ processed = << >>
    /\ last = NoCall

Clean ==
    /\ pc = "clean"
    /\ ~CleanRaises(flight)
    /\ cleaned' = Val(clean_flight_data(flight))
    /\ pc' = "cleaned"
    /\ UNCHANGED <<flight, dbVars, fs, todo, processed, last>>

CleanNext == Clean

CleanSpec == CleanInit /\ [][CleanNext]_vars

\* ------------------------------------------------------- stated properties

\* The cleaned field a raw key is normalized into.
FieldOf ==
    ( KeyDeparture :> "departure" @@ KeyDestination :> "destination" @@
      KeyDate :> "flight_date" @@ KeyCode :> "flight_code" @@
      KeyPrice :> "price" )

\* The value under key as the record was read, the empty string if absent.
RawOf(key) == IF key \in DOMAIN flight.o THEN flight.o[key].s ELSE << >>

IsBlank(s) == \A i \in 1..Len(s) : s[i] \in Whitespace

\* s between its first and its last non-whitespace character.
Trimmed(s) ==
    IF IsBlank(s) THEN << >>
    ELSE LET ix == { i \in 1..Len(s) : s[i] \notin Whitespace }
             lo == CHOOSE i \in ix : \A j \in ix : i <= j
             hi == CHOOSE i \in ix : \A j \in ix : j <= i
         IN  SubSeq(s, lo, hi)

\* The result of the finished clean_flight_data call.
Result == cleaned[1]

\* C7: each of departure, destination and flight_code is the raw value
\* without its leading and trailing whitespace when that is non-empty, and
\* null when the key is missing or the value is empty or all whitespace; a
\* non-null result is not empty, neither starts nor ends with whitespace,
\* and normalizes to itself.
C7_TextFieldsTrimmed ==
    pc = "cleaned" =>
        \A k \in TextKeys :
            LET r == Result[FieldOf[k]]
            IN  /\ (k \notin DOMAIN flight.o \/ IsBlank(RawOf(k))) => r = None
                /\ ~IsBlank(RawOf(k)) => r = Val(Trimmed(RawOf(k)))
                /\ r # None =>
                    /\ r[1] # << >>
                    /\ r[1][1] \notin Whitespace
                    /\ r[1][Len(r[1])] \notin Whitespace
                    /\ CleanText(JObj(k :> JStr(r[1])), k) = r

C7_Witness ==
    /\ pc = "cleaned"
    /\ RawOf(KeyDeparture) = <<"\t", "a", " ">>
    /\ Result.departure = Val(<<"a">>)

\* --- flight_date

\* The decimal numeral of n < 100, and the same padded to two digits.
DigitChar(n) ==
    CASE n = 0 -> "0" [] n = 1 -> "1" [] n = 2 -> "2" [] n = 3 -> "3"
      [] n = 4 -> "4" [] n = 5 -> "5" [] n = 6 -> "6" [] n = 7 -> "7"
      [] n = 8 -> "8" [] n = 9 -> "9"

Numeral(n) ==
    IF n < 10 THEN <<DigitChar(n)>>
    ELSE <<DigitChar(n \div 10), DigitChar(n % 10)>>

Padded(n) == <<DigitChar(n \div 10), DigitChar(n % 10)>>

YearOf(s) ==
    1000 * DigitValue(s[1]) + 100 * DigitValue(s[2])
        + 10 * DigitValue(s[3]) + DigitValue(s[4])

\* YYYY-MM-DD naming a day of the calendar.
IsIsoDate(s) ==
    /\ Len(s) = 10
    /\ s[5] = "-" /\ s[8] = "-"
    /\ \A i \in {1, 2, 3, 4, 6, 7, 9, 10} : s[i] \in Digits
    /\ YearOf(s) >= 1
    /\ \E m \in 1..12 :
        /\ SubSeq(s, 6, 7) = Padded(m)
        /\ \E d \in 1..DaysInMonth(YearOf(s), m) : SubSeq(s, 9, 10) = Padded(d)

\* What '%Y-%m-%d' reads: a four-digit year, then month and day with or
\* without the leading zero, a one-digit day also behind a space.
IsStrptimeDate(s) ==
    /\ Len(s) >= 8
    /\ \A i \in 1..4 : s[i] \in Digits
    /\ YearOf(s) >= 1
    /\ s[5] = "-"
    /\ \E m \in 1..12 : \E mm \in {Numeral(m), Padded(m)} :
        \E d \in 1..DaysInMonth(YearOf(s), m) :
            \E dd \in {Numeral(d), Padded(d)}
                       \cup (IF d < 10 THEN {<<" ", DigitChar(d)>>} ELSE {}) :
                SubSeq(s, 6, Len(s)) = mm \o <<"-">> \o dd

\* C6 as stated: flight_date is non-null only for a trimmed value of the
\* form YYYY-MM-DD that is a calendar date, and is then that trimmed value;
\* every other value, a missing or an empty one included, gives null.
C6_IsoOnly ==
    pc = "cleaned" =>
        Result.flight_date =
            IF IsIsoDate(Trimmed(RawOf(KeyDate)))
            THEN Val(Trimmed(RawOf(KeyDate))) ELSE None

\* C6 amended: flight_date is the trimmed value, unchanged, exactly when
\* strptime's '%Y-%m-%d' reads it as a calendar date, which it also does
\* for a month or day written without its leading zero; otherwise null.
C6_StrptimeDate ==
    pc = "cleaned" =>
        Result.flight_date =
            IF IsStrptimeDate(Trimmed(RawOf(KeyDate)))
            THEN Val(Trimmed(RawOf(KeyDate))) ELSE None

C6_Witness ==
    /\ pc = "cleaned"
    /\ RawOf(KeyDate) = <<" ", "2", "0", "2", "4", "-", "2", "-", "5", "\t">>
    /\ Result.flight_date = Val(<<"2", "0", "2", "4", "-", "2", "-", "5">>)

\* --- price

Without3(s) == SelectSeq(s, LAMBDA c : c \notin {Yen, ",", " "})

WithoutAnySpace(s) == SelectSeq(s, LAMBDA c : c \notin {Yen, ","} \cup Whitespace)

OnlyDigits(s) == SelectSeq(s, LAMBDA c : c \in Digits)

RECURSIVE Pow10(_)
Pow10(n) == IF n = 0 THEN 1 ELSE 10 * Pow10(n - 1)

RECURSIVE PositionalSum(_, _)
PositionalSum(ds, i) ==
    IF i > Len(ds) THEN 0
    ELSE DigitValue(ds[i]) * Pow10(Len(ds) - i) + PositionalSum(ds, i + 1)

\* An integer numeral as int() takes it: an optional sign, then digits,
\* between any two of which one underscore may stand.
IsIntNumeral(s) ==
    LET body == IF s # << >> /\ s[1] \in {"+", "-"} THEN Tail(s) ELSE s
    IN  /\ body # << >>
        /\ \A i \in 1..Len(body) :
            \/ body[i] \in Digits
            \/ /\ body[i] = "_"
               /\ 1 < i /\ i < Len(body)
               /\ body[i - 1] \in Digits /\ body[i + 1] \in Digits

NumeralValue(s) ==
    IF s[1] = "-" THEN 0 - PositionalSum(OnlyDigits(s), 1)
    ELSE PositionalSum(OnlyDigits(s), 1)

PriceIsNullOrInt == Result.price = None \/ Result.price[1] \in Int

\* C5 as stated: the currency symbol, the thousands separators and all
\* whitespace are stripped; a missing, empty or sentinel value and a value
\* that is not numeric after stripping give null, an integer numeral gives
\* its value; the price is always null or an integer.
C5_StripsAllWhitespace ==
    pc = "cleaned" =>
        LET raw == Trimmed(RawOf(KeyPrice))
            stripped == WithoutAnySpace(raw)
        IN  /\ PriceIsNullOrInt
            /\ (raw = << >> \/ raw \in PriceSentinels) => Result.price = None
            /\ (raw # << >> /\ raw \notin PriceSentinels
                  /\ IsIntNumeral(stripped))
                  => Result.price = Val(NumeralValue(stripped))
            /\ (\E i \in 1..Len(stripped) :
                    stripped[i] \notin Digits \cup {"+", "-", "_", "."})
                  => Result.price = None

\* C5 amended: the yen sign, the commas and the space characters are
\* removed, and whitespace is removed from both ends, not from between other
\* characters; a missing, empty or sentinel value gives null; what is left
\* gives its value if it is an integer numeral (optional sign, digits,
\* single underscores between digits) and null otherwise, so a decimal point
\* or an inner tab or newline gives null; the price is always null or an
\* integer.
C5_PriceParsed ==
    pc = "cleaned" =>
        LET raw == Trimmed(RawOf(KeyPrice))
            stripped == Trimmed(Without3(raw))
        IN  /\ PriceIsNullOrInt
            /\ Result.price =
                IF raw = << >> \/ raw \in PriceSentinels THEN None
                ELSE IF IsIntNumeral(stripped)
                THEN Val(NumeralValue(stripped))
                ELSE None

C5_Witness ==
    /\ pc = "cleaned"
    /\ RawOf(KeyPrice) = <<Yen, "1", ",">>
    /\ Result.price = Val(1)

\* --- the pipeline

RequiredColumns ==
    {"departure", "destination", "flight_date", "flight_code", "price"}

\* Everything the connection sees in ticket_info.
VisibleRows == table \o pending

\* C1: every row of ticket_info, committed or in the open transaction, has
\* non-null departure, destination, flight_date, flight_code and price.
C1_RequiredNonNull ==
    \A i \in 1..Len(VisibleRows) :
        \A c \in RequiredColumns : VisibleRows[i][c] # None

C1_Witness ==
    /\ pc = "called"
    /\ last.outcome = "returned"
    /\ last.content =
          JList(<<JObj(Without(FlightA, KeyDeparture)), JObj(FlightA)>>)
    /\ Len(table) = Len(last.before) + 1

\* The records of a file: the top-level list, or the list under the
\* flight-list key of a top-level object.
RecordsOf(content) ==
    IF content.t = "list" THEN content.l
    ELSE IF /\ content.t = "obj"
            /\ FlightListKey \in DOMAIN content.o
            /\ content.o[FlightListKey].t = "list"
    THEN content.o[FlightListKey].l
    ELSE << >>

\* The rows a file's records should give: one per record whose normalized
\* required fields are all non-null, in the order of the file.
RECURSIVE ExpectedRows(_, _)
ExpectedRows(records, source) ==
    IF records = << >> THEN << >>
    ELSE LET n == clean_flight_data(Head(records))
         IN  (IF \A c \in RequiredColumns : n[c] # None
              THEN << [ departure   |-> n.departure,
                        destination |-> n.destination,
                        flight_type |-> FlightTypeDomestic,
                        flight_date |-> n.flight_date,
                        flight_code |-> n.flight_code,
                        price       |-> n.price,
                        source_file |-> source,
                        created_at  |-> ThisRun ] >>
              ELSE << >>)
             \o ExpectedRows(Tail(records), source)

\* The paths of the files in the tree.
FilePaths ==
    UNION { { Append(d, fs[d].files[i]) : i \in 1..Len(fs[d].files) } :
              d \in DOMAIN fs }

\* C2: after a call of process_single_file that ended without an exception,
\* the rows added to ticket_info are the valid normalized records of the
\* file, one row each, duplicates kept, in file order, tagged with the
\* absolute path of the file, and added by one executemany and one commit.
C2_BatchLoad ==
    (pc = "called" /\ last.outcome = "returned") =>
        LET rows == ExpectedRows(RecordsOf(last.content),
                                 Cwd \o last.file_path)
        IN  /\ last.file_path \in FilePaths
            /\ table = last.before \o rows
            /\ pending = << >>
            /\ rows # << >> => (last.execs = 1 /\ last.commits = 1)

C2_Witness ==
    /\ pc = "called"
    /\ last.outcome = "returned"
    /\ last.content = JList(<<JObj(FlightA), JObj(FlightA)>>)
    /\ Len(table) = Len(last.before) + 2
    /\ table[Len(table)].source_file = Cwd \o last.file_path

\* A bound on the steps the run has still to take.
Rank ==
    CASE pc = "idle"      -> 2 * Len(Walk(fs, RootFolder)) + 7
      [] pc = "connected" -> 2 * Len(Walk(fs, RootFolder)) + 6
      [] pc = "inited"    -> 2 * Len(Walk(fs, RootFolder)) + 5
      [] pc = "walk"      -> 2 * Len(todo) + 4
      [] pc = "called"    -> 2 * Len(todo) + 3
      [] pc = "except"    -> 3
      [] pc = "excepted"  -> 2
      [] pc = "walked"    -> 2
      [] pc = "done"      -> 0

C3_StateOrder ==
    /\ closes <= 1
    /\ (conn = "closed") = (closes = 1)
    /\ (inited \/ processed # << >>) => conn # "none"
    /\ processed # << >> => inited
    /\ pc \in {"inited", "walk", "called", "walked"} =>
          (conn = "open" /\ inited /\ tableExists)
    /\ conn = "open" => ENABLED Next
    /\ ~(ENABLED Next) => (pc = "done" /\ conn # "open")

C3_Step ==
    /\ (Len(table') > Len(table) \/ Len(pending') > Len(pending)) =>
          (conn = "open" /\ conn' = "open" /\ inited /\ tableExists)
    /\ inited' /\ ~inited => (conn = "open" /\ processed = << >>)
    /\ conn = "open" => conn' \in {"open", "closed"}
    /\ conn = "closed" => UNCHANGED vars
    /\ Rank' < Rank

\* C3: once the connection is open, the table is recreated before any file
\* is processed, rows are inserted only while the connection is open and
\* after the table was recreated, and nothing happens after the close.  The
\* connection is closed once on every path, also when schema initialization
\* or the walk raises: while it is open a step is enabled, every step
\* lowers Rank, and the run can only stop with the connection closed.
C3_Lifecycle == []C3_StateOrder /\ [][C3_Step]_vars

\* The walk raised and the connection was closed all the same.
C3_Witness ==
    /\ pc = "done"
    /\ inited
    /\ todo # << >>
    /\ conn = "closed"
    /\ closes = 1

HasJsonSuffix(name) ==
    LET n == Len(name)
    IN  /\ n >= 5
        /\ name[n - 4] = "."
        /\ name[n - 3] \in {"j", "J"}
        /\ name[n - 2] \in {"s", "S"}
        /\ name[n - 1] \in {"o", "O"}
        /\ name[n] \in {"n", "N"}

JsonPaths ==
    UNION { { Append(d, fs[d].files[i]) :
                i \in { k \in 1..Len(fs[d].files) :
                           HasJsonSuffix(fs[d].files[k]) } } :
              d \in DOMAIN fs }

\* C8: process_single_file is called at most once per file and only on
\* files under the root whose name ends in .json, whatever the case; when
\* the walk ends without an exception it was called on every such file.
C8_WalkCoversJson ==
    /\ \A i, j \in 1..Len(processed) : processed[i] = processed[j] => i = j
    /\ \A i \in 1..Len(processed) : processed[i] \in JsonPaths
    /\ pc = "walked" =>
          { processed[i] : i \in 1..Len(processed) } = JsonPaths

C8_Witness ==
    /\ pc = "walked"
    /\ fs = Tree1
    /\ Len(processed) = 2

Raised == last.outcome \in {"handled", "escaped"}

NoRowFromLastFile ==
    \A i \in 1..Len(table) : table[i].source_file # Cwd \o last.file_path

IsFlightObject(r) ==
    /\ r.t = "obj"
    /\ \A k \in CleanKeys \cap DOMAIN r.o : r.o[k].t = "str"

\* The contents C9 lists: a top-level value that is neither list nor
\* object, a record that is no object, a field value that is no string.
IsMalformed(content) ==
    \/ content.t \in {"num", "null", "str"}
    \/ \E i \in 1..Len(RecordsOf(content)) :
          ~IsFlightObject(RecordsOf(content)[i])

\* C9 as stated: when processing a file raises, no row of the file is in
\* ticket_info, the rows of the files before it are all there, and the walk
\* goes on with the remaining files.
C9_WalkAlwaysContinues ==
    Raised => (table = last.before /\ NoRowFromLastFile /\ pc = "called")

\* C9 amended: a malformed file and a failed batch insert raise; when
\* processing a file raises, no row of the file is in ticket_info and the
\* rows of the files before it are all there; the walk goes on with the
\* remaining files if the rollback succeeds, and if conn.rollback() raises
\* in its turn the exception leaves the walk at that file, the remaining
\* files are not processed and the connection is closed.
C9_AtomicPerFile ==
    /\ (last.outcome # "none" /\ IsMalformed(last.content)) => Raised
    /\ (last.outcome # "none" /\ last.execs = 1 /\ last.commits = 0) => Raised
    /\ Raised => (table = last.before /\ NoRowFromLastFile)
    /\ last.outcome = "handled" => (pending = << >> /\ pc = "called")
    /\ last.outcome = "escaped" => pc = "except"
    /\ (pc \in {"except", "excepted"} /\ inited) => todo # << >>
    /\ (pc \in {"except", "excepted", "done"} /\ todo # << >>) =>
        /\ processed # << >>
        /\ processed[Len(processed)]
              = Append(Head(todo).root, Head(todo).filename)
        /\ pc = "done" => (conn = "closed" /\ pending = << >>)

\* The batch insert of a second file failed and was rolled back.
C9_Witness ==
    /\ pc = "called"
    /\ last.outcome = "handled"
    /\ last.execs = 1
    /\ last.before # << >>
    /\ table = last.before

\* The files C10 lists: not JSON, an empty list, an object whose
\* flight-list key is absent or empty, records that the filter all rejects.
IsNoOpContent(content) ==
    \/ content = NotJson
    \/ content.t = "list" /\ content.l = << >>
    \/ /\ content.t = "obj"
       /\ \/ FlightListKey \notin DOMAIN content.o
          \/ content.o[FlightListKey] \in {JList(<< >>), JNull}
    \/ /\ RecordsOf(content) # << >>
       /\ \A i \in 1..Len(RecordsOf(content)) :
            /\ IsFlightObject(RecordsOf(content)[i])
            /\ \E c \in RequiredColumns :
                  clean_flight_data(RecordsOf(content)[i])[c] = None

\* C10: a file that is not JSON, holds no flight list, or holds only
\* records the filter rejects leaves ticket_info as it was, with no
\* executemany and no commit, and the walk goes on.
C10_NoOpFiles ==
    (last.outcome # "none" /\ IsNoOpContent(last.content)) =>
        /\ last.outcome = "returned"
        /\ table = last.before
        /\ pending = << >>
        /\ last.execs = 0
        /\ last.commits = 0
        /\ pc = "called"

C10_Witness ==
    /\ pc = "called"
    /\ last.content =
          JList(<<JObj(With(FlightA, KeyPrice, JStr(<<"N", "/", "A">>))),
                  JObj(With(FlightA, KeyCode, JStr(<< >>)))>>)
    /\ last.before # << >>
    /\ table = last.before

====
